---- MODULE Spec2Model ----
(***************************************************************************)
(* Model of the localVoiceApp dictation utility.                           *)
(*                                                                         *)
(* Spec      : the real-time application (the JavaScript program stored    *)
(*             in src/rec-wrapper.sh from line 30 on): the F9 keyboard     *)
(*             listener, startRecording, the audio stream handlers,        *)
(*             typeNewWords, stopRecording and its 2000 ms grace timer.    *)
(* SpecFair  : Spec with the grace timer callback weakly fair.             *)
(* SpecDedup : the deduplicating transcription loop of the accuracy test   *)
(*             script (src/unnamed/part_000, lines 51-88).                 *)
(* SpecPost  : the PostProcessor class (post-processor.js, stored in       *)
(*             src/unnamed/part_005 from line 438 on) applied to the word  *)
(*             list of a final result.                                     *)
(* SpecBatch : the batch-mode program (src/unnamed/part_002): audio is     *)
(*             stored while recording and recognized in processRecording   *)
(*             when the grace timer fires.                                 *)
(* SpecScenario : the real-time application on the documented utterance    *)
(*             "four score and seven".                                     *)
(* SpecLevel : calculateAudioLevel (src/rec-wrapper.sh, lines 105-120)     *)
(*             applied to the chunks of the data handler.                  *)
(* SpecStream : WhisperEngine.transcribeStream (src/whisper-engine.js,     *)
(*             lines 114-155).                                             *)
(* SpecPostCall : PostProcessor.process and removeDuplicates called on a   *)
(*             text, under every setting of the two postProcessing flags.  *)
(* SpecPrefix : the prefix-diff variant of the real-time application       *)
(*             (src/unnamed/part_003): typeNewWords keeps lastTypedText.   *)
(*                                                                         *)
(* Texts are sequences of one-character strings, a word is a non-empty     *)
(* sequence of non-blank characters.  Node runs every handler to           *)
(* completion on one event loop, so one action is one whole handler.       *)
(*                                                                         *)
(* Left out of the state: the blessed widgets, currentAudioLevel,          *)
(* cachedMicName and lastPartialText (written, never read by the           *)
(* session logic), and the quit key (it ends the process).                 *)
(***************************************************************************)
EXTENDS Integers, Sequences, FiniteSets, TLC

\* ------------------------------------------------------------------ bounds
MaxWords == 2
MaxSessions == 2
MaxTimers == 2
MaxChunks == 3
MaxResults == 3
MaxBuffers == 2
MaxBatchWords == 2
MaxBufferLen == 3
MaxStreams == 2
MaxOffered == 2
MaxCallWords == 3
MaxPartials == 3

\* ------------------------------------------------------------------- texts
SP == " "
the == <<"t", "h", "e">>
cat == <<"c", "a", "t">>
sat == <<"s", "a", "t">>
Vocabulary == {the, cat}

RECURSIVE WordSeqs(_)
WordSeqs(n) ==
    IF n = 0 THEN {<<>>}
    ELSE LET shorter == WordSeqs(n - 1)
         IN  shorter \cup {Append(ws, w) : ws \in {s \in shorter : Len(s) = n - 1}, w \in Vocabulary}

RECURSIVE JoinWords(_, _)
JoinWords(ws, sep) ==
    IF ws = <<>> THEN <<>>
    ELSE IF Len(ws) = 1 THEN ws[1]
    ELSE ws[1] \o sep \o JoinWords(Tail(ws), sep)

\* A recognizer text: the words joined by single blanks ("plain") or by
\* double blanks with a leading and a trailing blank ("padded").
Render(ws, style) ==
    IF style = "plain" THEN JoinWords(ws, <<SP>>)
    ELSE <<SP>> \o JoinWords(ws, <<SP, SP>>) \o <<SP>>

Styles == {"plain", "padded"}
TheCatCatSat == Render(<<the, cat, cat, sat>>, "plain")
TheTheTheCat == Render(<<the, the, the, cat>>, "plain")
ExampleTexts == {TheCatCatSat, TheTheTheCat}
Texts == {Render(ws, st) : ws \in WordSeqs(MaxWords), st \in Styles} \cup ExampleTexts

\* String.prototype.trim
RECURSIVE TrimLeft(_)
TrimLeft(text) ==
    IF text # <<>> /\ Head(text) = SP THEN TrimLeft(Tail(text)) ELSE text

RECURSIVE TrimRight(_)
TrimRight(text) ==
    IF text # <<>> /\ text[Len(text)] = SP
    THEN TrimRight(SubSeq(text, 1, Len(text) - 1)) ELSE text

\* text.trim() of every text the recognizer returns, worked out once
Trimmed == [t \in Texts |-> TrimRight(TrimLeft(t))]

Trim(text) ==
    IF text \in DOMAIN Trimmed THEN Trimmed[text]
    ELSE TrimRight(TrimLeft(text))

\* text.split(/\s+/): the pieces between maximal runs of blanks; a text that
\* starts or ends with a blank yields an empty first or last piece, and the
\* empty text yields one empty piece.
RECURSIVE SplitRuns(_, _, _)
SplitRuns(text, cur, acc) ==
    IF text = <<>> THEN Append(acc, cur)
    ELSE IF Head(text) = SP
         THEN SplitRuns(TrimLeft(text), <<>>, Append(acc, cur))
         ELSE SplitRuns(Tail(text), Append(cur, Head(text)), acc)

\* The words of every text the recognizer returns, and of its trimmed
\* form, worked out once.
WordsTable ==
    [t \in Texts \cup {Trim(u) : u \in Texts} |->
        SelectSeq(SplitRuns(Trim(t), <<>>, <<>>), LAMBDA w : Len(w) > 0)]

\* newText.trim().split(/\s+/).filter(word => word.length > 0)
SplitWords(text) ==
    IF text \in DOMAIN WordsTable THEN WordsTable[text]
    ELSE SelectSeq(SplitRuns(Trim(text), <<>>, <<>>), LAMBDA w : Len(w) > 0)

\* A recognizer result as the handlers see it: a text, or one of the
\* malformed shapes (null / missing field, a non-string value, a string
\* that JSON.parse rejects).
Hypotheses ==
    [kind : {"text"}, text : Texts]
        \cup [kind : {"null", "nonString", "parseError"}, text : {<<>>}]

\* ------------------------------------------------------- real-time program
Null == 0

VARIABLES
    isRecording,        \* let isRecording
    recognizer,         \* let recognizer: Null or the handle of a vosk.Recognizer
    recorder,           \* let recorder: Null or the handle of a recorder
    typedWords,         \* let typedWords: the committed word log
    audioData,          \* let audioData: "empty" or "filled" (waveform samples)
    audioLevelInterval, \* let audioLevelInterval: Null or a setInterval handle
    status,             \* the state shown by updateStatus
    timers,             \* pending setTimeout callbacks of stopRecording, oldest
                        \* first; each entry is the session that scheduled it
    liveRecognizers,    \* recognizers created and not yet free()d
    liveRecorders,      \* recorders started and not yet stop()ped
    liveIntervals,      \* intervals set and not yet cleared
    streams,            \* audio streams whose handlers can still be called
    session,            \* number of sessions started so far
    typed,              \* texts passed to typeTextAtCursor since the last start
    ev                  \* the handler that ran last and what it was given

progVars ==
    <<isRecording, recognizer, recorder, typedWords, audioData,
      audioLevelInterval, status, timers, liveRecognizers, liveRecorders,
      liveIntervals, streams, session, typed>>

appVars == <<progVars, ev>>

\* ------------------------------------------- accuracy test script (part_000)
VARIABLES
    testTypedWords,     \* let typedWords of the script
    testPc,             \* "chunks": in the chunk loop; "done": after finalResult
    chunk,              \* chunks of the WAV buffer fed so far
    consumed,           \* the largest word count of a result handled so far
    testEv              \* the result handled last and what it added

testVars == <<testTypedWords, testPc, chunk, consumed, testEv>>

\* ------------------------------------------ PostProcessor (post-processor.js)
VARIABLES
    wordResults,        \* result.result: the words of a final result, each
                        \* with its conf (or undefined)
    postThreshold,      \* the threshold argument of filterByConfidence
    postPc,             \* "result", "filtered" or "typed"
    filteredWords,      \* what filterByConfidence returned
    transcribedText     \* the text handed to typeTextAtCursor

postVars == <<wordResults, postThreshold, postPc, filteredWords, transcribedText>>

\* ------------------------------------------- batch-mode program (part_002)
VARIABLES
    batchRecording,     \* let isRecording
    batchRecorder,      \* let recorder: Null or the recorder of a session
    audioBuffers,       \* let audioBuffers: the number of buffers it holds
    batchAudioData,     \* let audioData: the number of amplitudes it holds
    batchInterval,      \* let audioLevelInterval: Null or a handle
    batchStatus,        \* the state shown by updateStatus
    batchTimers,        \* pending setTimeout callbacks of stopRecording
    batchStreams,       \* audio streams whose handlers can still be called
    batchSession,       \* number of sessions started so far
    batchLive,          \* recognizers created and not yet free()d
    batchTypedCount,    \* calls of typeTextAtCursor since the last start
    batchConfig,        \* what require('./config') gave when the program started
    batchEv             \* the handler that ran last and what it did

batchProg ==
    <<batchRecording, batchRecorder, audioBuffers, batchAudioData,
      batchInterval, batchStatus, batchTimers, batchStreams, batchSession,
      batchLive, batchTypedCount, batchConfig>>

batchVars == <<batchProg, batchEv>>

\* ------------------------------------- calculateAudioLevel (rec-wrapper.sh)
VARIABLES
    levelCall           \* buffer: the argument of calculateAudioLevel;
                        \* result: how the call ended, once it has been made

levelVars == <<levelCall>>

\* ------------------------------ WhisperEngine.transcribeStream (one call each)
VARIABLES
    streamCalls,        \* one record for each call of transcribeStream:
                        \*   interval: const interval, active or cleared
                        \*   chunks: const chunks, how many it holds
                        \*   processing: let processing
                        \*   offered: chunks audioChunkCallback has to give
                        \*   delivered: calls of transcriptionCallback
    streamEv            \* the function that ran last and what it found

streamVars == <<streamCalls, streamEv>>

\* ------------------------------------- PostProcessor called on a text
VARIABLES
    postCall            \* fn: the method called; config: this.config;
                        \* text: its argument; result: what it returned,
                        \* once the call has been made

callVars == <<postCall>>

\* ------------------------------------- prefix-diff program (part_003)
VARIABLES
    prefixRecording,    \* let isRecording
    prefixRecognizer,   \* let recognizer: TRUE while it holds one
    lastTypedText,      \* let lastTypedText
    prefixTimers,       \* pending grace timers of stopRecording
    prefixSession,      \* recording sessions started so far
    prefixTyped,        \* history: the texts typed since the session began
    prefixEv            \* history: the handler that ran last

prefixVars == <<prefixRecording, prefixRecognizer, lastTypedText,
                prefixTimers, prefixSession, prefixTyped, prefixEv>>

vars == <<appVars, testVars, postVars, batchVars, levelVars, streamVars,
          callVars, prefixVars>>

\* What each program leaves alone: the state of the other programs.
notApp == <<testVars, postVars, batchVars, levelVars,
    streamVars, callVars, prefixVars>>
notTest == <<appVars, postVars, batchVars, levelVars,
    streamVars, callVars, prefixVars>>
notPost == <<appVars, testVars, batchVars, levelVars,
    streamVars, callVars, prefixVars>>
notBatch == <<appVars, testVars, postVars, levelVars,
    streamVars, callVars, prefixVars>>
notLevel == <<appVars, testVars, postVars, batchVars,
    streamVars, callVars, prefixVars>>
notCall == <<appVars, testVars, postVars, batchVars, levelVars,
    streamVars, prefixVars>>
notPrefix == <<appVars, testVars, postVars, batchVars, levelVars,
    streamVars, callVars>>
notStream == <<appVars, testVars, postVars, batchVars,
    levelVars, callVars, prefixVars>>

\* typeTextAtCursor(text): one xdotool call per text
typeTextAtCursor(sink, text) == Append(sink, text)

\* for (let i = from; i < words.length; i++) {
\*     typeTextAtCursor(word + ' '); typedWords.push(word); }
\* i is the 1-based position of the next word; st = [typedWords, typed].
RECURSIVE TypeLoop(_, _, _)
TypeLoop(words, i, st) ==
    IF i > Len(words) THEN st
    ELSE TypeLoop(words, i + 1,
                  [typedWords |-> Append(st.typedWords, words[i]),
                   typed |-> typeTextAtCursor(st.typed, words[i] \o <<SP>>)])

\* Mutant: the log is brought in line with the revised hypothesis before the
\* new words are typed.
typeNewWordsRewrite(st, newText) ==
    LET newWords == SplitWords(newText)
        alreadyTypedCount == Len(st.typedWords)
    IN  IF Len(newWords) > alreadyTypedCount
        THEN TypeLoop(newWords, alreadyTypedCount + 1,
                      [typedWords |-> SubSeq(newWords, 1, alreadyTypedCount),
                       typed |-> st.typed])
        ELSE st

\* Mutant: the whole hypothesis is typed in one call, then its new words are
\* recorded.
typeNewWordsWhole(st, newText) ==
    LET newWords == SplitWords(newText)
        alreadyTypedCount == Len(st.typedWords)
    IN  IF Len(newWords) > alreadyTypedCount
        THEN [typedWords |-> st.typedWords
                  \o SubSeq(newWords, alreadyTypedCount + 1, Len(newWords)),
              typed |-> typeTextAtCursor(st.typed, newText \o <<SP>>)]
        ELSE st

typeNewWords(st, newText) ==
    LET newWords == SplitWords(newText)
        alreadyTypedCount == Len(st.typedWords)
    IN  IF Len(newWords) > alreadyTypedCount
        THEN TypeLoop(newWords, alreadyTypedCount + 1, st)
        ELSE st

\* Mutant: the handle is dropped without free().
FreedNot(live, handle) == live

\* recognizer.free(): the handle leaves the set of live recognizers
Freed(live, handle) == live \ {handle}

Here == [typedWords |-> typedWords, typed |-> typed]

\* What a handler was given: the words of a well-formed hypothesis.
WordsOf(h) == IF h.kind = "text" THEN SplitWords(h.text) ELSE <<>>

Revises(words, log) ==
    \E i \in 1..Len(log) : i <= Len(words) /\ words[i] # log[i]

\* The record of the handler that ran last: which one (op) and who called it
\* (src), the log length (n) and isRecording (was) it found, whether a
\* recognizer was there to hear the chunk (heard), and of the hypothesis it
\* was given the word count (len), the words beyond position n (tail) and
\* whether a word at a committed position differs from the log (revised);
\* steps lists, in the order they ran, the calls the timer callback made.
Event(op, src, words) ==
    [op |-> op, src |-> src, n |-> Len(typedWords), len |-> Len(words),
     tail |-> SubSeq(words, Len(typedWords) + 1, Len(words)),
     revised |-> Revises(words, typedWords), was |-> isRecording,
     heard |-> recognizer # Null, bad |-> FALSE, steps |-> <<>>]

\* A hypothesis that is no well-formed result: null, not a string where text
\* is expected, or a string JSON.parse rejects.
Malformed(h) == h.kind # "text"

\* The record of a handler that asked the recognizer for a hypothesis: bad
\* tells whether the one it got was malformed.
Heard(op, src, h) ==
    [Event(op, src, IF recognizer = Null THEN <<>> ELSE WordsOf(h))
        EXCEPT !.bad = recognizer # Null /\ Malformed(h)]

AppInit ==
    /\ isRecording = FALSE
    /\ recognizer = Null
    /\ recorder = Null
    /\ typedWords = <<>>
    /\ audioData = "empty"
    /\ audioLevelInterval = Null
    /\ status = "idle"
    /\ timers = <<>>
    /\ liveRecognizers = {}
    /\ liveRecorders = {}
    /\ liveIntervals = {}
    /\ streams = {}
    /\ session = 0
    /\ typed = <<>>
    /\ ev = [op |-> "init", src |-> "init", n |-> 0, len |-> 0,
             tail |-> <<>>, revised |-> FALSE, was |-> FALSE,
             heard |-> FALSE, bad |-> FALSE, steps |-> <<>>]

\* The body of startRecording after its guard.
BeginSession ==
    /\ session < MaxSessions
    /\ session' = session + 1
    /\ isRecording' = TRUE
    /\ typedWords' = <<>>
    /\ typed' = <<>>
    /\ audioData' = "empty"
    /\ status' = "recording"
    /\ audioLevelInterval' = session'
    /\ liveIntervals' = liveIntervals \cup {session'}
    /\ recognizer' = session'
    /\ liveRecognizers' = liveRecognizers \cup {session'}
    /\ recorder' = session'
    /\ liveRecorders' = liveRecorders \cup {session'}
    /\ streams' = streams \cup {session'}
    /\ UNCHANGED timers

\* Mutant: startRecording without its isRecording guard.
startRecordingUnguarded == BeginSession

\* startRecording(): a call while isRecording returns at once.
startRecording ==
    IF isRecording
    THEN UNCHANGED progVars
    ELSE BeginSession

\* stopRecording(): a call while not isRecording returns at once; otherwise
\* the level interval is cleared and the grace timer is scheduled.
stopRecording ==
    IF ~isRecording
    THEN UNCHANGED progVars
    ELSE /\ Len(timers) < MaxTimers
         /\ status' = "processing"
         /\ liveIntervals' = liveIntervals \ {audioLevelInterval}
         /\ audioLevelInterval' = Null
         /\ timers' = Append(timers, session)
         /\ UNCHANGED <<isRecording, recognizer, recorder, typedWords,
                        audioData, liveRecognizers, liveRecorders, streams,
                        session, typed>>

\* startRecording() called on a start signal, whatever the state.
StartSignal ==
    /\ startRecording
    /\ UNCHANGED notApp
    /\ ev' = Event("start", "call", <<>>)

\* keyboard.addListener: F9 starts when not recording and stops otherwise.
KeyF9 ==
    /\ IF ~isRecording THEN startRecording ELSE stopRecording
    /\ UNCHANGED notApp
    /\ ev' = Event(IF ~isRecording THEN "start" ELSE "stop", "f9", <<>>)

\* Mutant: the error handler only logs the error.
StreamErrorIgnored(r) ==
    /\ r \in streams
    /\ UNCHANGED progVars
    /\ UNCHANGED notApp
    /\ ev' = Event("stop", "stream", <<>>)

\* Mutant: the error handler stops a running session and, when none is
\* running, starts one again.
StreamErrorRetry(r) ==
    /\ r \in streams
    /\ IF isRecording THEN stopRecording ELSE BeginSession
    /\ UNCHANGED notApp
    /\ ev' = Event("stop", "stream", <<>>)

\* audioStream.on('error'): stopRecording()
StreamError(r) ==
    /\ r \in streams
    /\ stopRecording
    /\ UNCHANGED notApp
    /\ ev' = Event("stop", "stream", <<>>)

\* Mutant: every non-empty partial is typed from its first word, whatever
\* has been typed before.
OnDataReplay(r, h) ==
    /\ r \in streams
    /\ ev' = Heard("data", "stream", h)
    /\ UNCHANGED notApp
    /\ IF recognizer = Null
       THEN UNCHANGED progVars
       ELSE /\ audioData' = "filled"
            /\ LET newText == Trim(h.text)
                   st == IF h.kind = "text" /\ Len(newText) > 0
                         THEN TypeLoop(SplitWords(newText), 1, Here)
                         ELSE Here
               IN  /\ typedWords' = st.typedWords
                   /\ typed' = st.typed
            /\ UNCHANGED <<isRecording, recognizer, recorder,
                           audioLevelInterval, status, timers,
                           liveRecognizers, liveRecorders, liveIntervals,
                           streams, session>>

\* Mutant: a malformed partial result is taken for a failure of the stream
\* and stops the session.
OnDataStops(r, h) ==
    /\ r \in streams
    /\ ev' = Heard("data", "stream", h)
    /\ UNCHANGED notApp
    /\ IF recognizer = Null
       THEN UNCHANGED progVars
       ELSE IF Malformed(h)
       THEN stopRecording
       ELSE /\ audioData' = "filled"
            /\ LET newText == Trim(h.text)
                   newWordCount == Len(SplitWords(newText))
                   st == IF /\ Len(newText) > 0
                            /\ newWordCount > Len(typedWords)
                         THEN typeNewWords(Here, newText)
                         ELSE Here
               IN  /\ typedWords' = st.typedWords
                   /\ typed' = st.typed
            /\ UNCHANGED <<isRecording, recognizer, recorder,
                           audioLevelInterval, status, timers,
                           liveRecognizers, liveRecorders, liveIntervals,
                           streams, session>>

\* Mutant: the data handler without its test that a recognizer exists.
OnDataUnguarded(r, h) ==
    /\ r \in streams
    /\ ev' = Heard("data", "stream", h)
    /\ UNCHANGED notApp
    /\ audioData' = "filled"
    /\ LET newText == Trim(h.text)
           newWordCount == Len(SplitWords(newText))
           st == IF /\ h.kind = "text"
                    /\ Len(newText) > 0
                    /\ newWordCount > Len(typedWords)
                 THEN typeNewWords(Here, newText)
                 ELSE Here
       IN  /\ typedWords' = st.typedWords
           /\ typed' = st.typed
    /\ UNCHANGED <<isRecording, recognizer, recorder, audioLevelInterval,
                   status, timers, liveRecognizers, liveRecorders,
                   liveIntervals, streams, session>>

\* audioStream.on('data'): h is what recognizer.partialResult() returns.
\* A null or unparsable result, or a partial that is not a string, throws
\* inside the try block and is ignored; an empty or blank partial is skipped.
OnData(r, h) ==
    /\ r \in streams
    /\ ev' = Heard("data", "stream", h)
    /\ UNCHANGED notApp
    /\ IF recognizer = Null
       THEN UNCHANGED progVars
       ELSE /\ audioData' = "filled"
            /\ LET newText == Trim(h.text)
                   newWordCount == Len(SplitWords(newText))
                   st == IF /\ h.kind = "text"
                            /\ Len(newText) > 0
                            /\ newWordCount > Len(typedWords)
                         THEN typeNewWords(Here, newText)
                         ELSE Here
               IN  /\ typedWords' = st.typedWords
                   /\ typed' = st.typed
            /\ UNCHANGED <<isRecording, recognizer, recorder,
                           audioLevelInterval, status, timers,
                           liveRecognizers, liveRecorders, liveIntervals,
                           streams, session>>

\* Mutant: the final result is typed from its first word.
typeFinalWordsAll(st, h) ==
    IF h.kind = "text" /\ Len(Trim(h.text)) > 0
    THEN TypeLoop(SplitWords(Trim(h.text)), 1, st)
    ELSE st

\* The final result in the timer callback: JSON.parse inside try/catch; if
\* result.text is a non-blank string its words beyond typedWords.length are
\* typed and recorded; anything else types nothing.
typeFinalWords(st, h) ==
    IF h.kind = "text" /\ Len(Trim(h.text)) > 0
    THEN TypeLoop(SplitWords(Trim(h.text)), Len(st.typedWords) + 1, st)
    ELSE st

\* Mutant: the final result is parsed outside a try block, so a result that
\* does not parse ends the callback before isRecording is cleared.
GraceTimerThrows(h) ==
    /\ timers # <<>>
    /\ timers' = Tail(timers)
    /\ UNCHANGED notApp
    /\ ev' = Heard("timer", "timer", h)
    /\ liveRecorders' = liveRecorders \ {recorder}
    /\ recorder' = Null
    /\ IF recognizer # Null
       THEN /\ liveRecognizers' = Freed(liveRecognizers, recognizer)
            /\ recognizer' = Null
            /\ LET st == typeFinalWords(Here, h)
               IN  /\ typedWords' = st.typedWords
                   /\ typed' = st.typed
            /\ status' = IF h.kind = "parseError" THEN status ELSE "idle"
       ELSE UNCHANGED <<liveRecognizers, recognizer, typedWords, typed, status>>
    /\ IF recognizer # Null /\ h.kind = "parseError"
       THEN UNCHANGED <<isRecording, audioData>>
       ELSE isRecording' = FALSE /\ audioData' = "empty"
    /\ UNCHANGED <<audioLevelInterval, liveIntervals, streams, session>>

\* Mutant: the final words are typed while the recognizer is still held,
\* and free() is the last call.
TimerStepsFreeLast(st) ==
    (IF recorder # Null THEN <<"recorder.stop">> ELSE <<>>)
        \o (IF recognizer # Null
            THEN <<"finalResult">>
                    \o (IF st.typed # typed
                        THEN <<"typeTextAtCursor">> ELSE <<>>)
                    \o <<"free">>
            ELSE <<>>)

\* The calls of the timer callback in the order of its statements:
\* recorder.stop() if a recorder is held; then, if a recognizer is held,
\* finalResult(), free(), and after them the typing of the final words;
\* st is the log and the sink as that typing leaves them.
TimerSteps(st) ==
    (IF recorder # Null THEN <<"recorder.stop">> ELSE <<>>)
        \o (IF recognizer # Null
            THEN <<"finalResult", "free">>
                    \o (IF st.typed # typed
                        THEN <<"typeTextAtCursor">> ELSE <<>>)
            ELSE <<>>)

\* Mutant: the callback leaves the recorder running and held.
GraceTimerKeepsRecorder(h) ==
    /\ timers # <<>>
    /\ timers' = Tail(timers)
    /\ UNCHANGED notApp
    /\ UNCHANGED <<liveRecorders, recorder>>
    /\ IF recognizer # Null
       THEN /\ liveRecognizers' = Freed(liveRecognizers, recognizer)
            /\ recognizer' = Null
            /\ LET st == typeFinalWords(Here, h)
               IN  /\ typedWords' = st.typedWords
                   /\ typed' = st.typed
                   /\ ev' = [Heard("timer", "timer", h)
                               EXCEPT !.steps = TimerSteps(st)]
            /\ status' = "idle"
       ELSE /\ ev' = [Heard("timer", "timer", h)
                        EXCEPT !.steps = TimerSteps(Here)]
            /\ UNCHANGED <<liveRecognizers, recognizer, typedWords, typed,
                           status>>
    /\ isRecording' = FALSE
    /\ audioData' = "empty"
    /\ UNCHANGED <<audioLevelInterval, liveIntervals, streams, session>>

\* The setTimeout callback of stopRecording, 2000 ms after the call; h is
\* what recognizer.finalResult() returns.  Equal delays fire in the order
\* they were scheduled.
GraceTimer(h) ==
    /\ timers # <<>>
    /\ timers' = Tail(timers)
    /\ UNCHANGED notApp
    /\ liveRecorders' = liveRecorders \ {recorder}
    /\ recorder' = Null
    /\ IF recognizer # Null
       THEN /\ liveRecognizers' = Freed(liveRecognizers, recognizer)
            /\ recognizer' = Null
            /\ LET st == typeFinalWords(Here, h)
               IN  /\ typedWords' = st.typedWords
                   /\ typed' = st.typed
                   /\ ev' = [Heard("timer", "timer", h)
                               EXCEPT !.steps = TimerSteps(st)]
            /\ status' = "idle"
       ELSE /\ ev' = [Heard("timer", "timer", h)
                        EXCEPT !.steps = TimerSteps(Here)]
            /\ UNCHANGED <<liveRecognizers, recognizer, typedWords, typed,
                           status>>
    /\ isRecording' = FALSE
    /\ audioData' = "empty"
    /\ UNCHANGED <<audioLevelInterval, liveIntervals, streams, session>>

\* The stream of a stopped recorder ends.
StreamEnd(r) ==
    /\ r \in streams \ liveRecorders
    /\ streams' = streams \ {r}
    /\ UNCHANGED notApp
    /\ ev' = Event("end", "stream", <<>>)
    /\ UNCHANGED <<isRecording, recognizer, recorder, typedWords, audioData,
                   audioLevelInterval, status, timers, liveRecognizers,
                   liveRecorders, liveIntervals, session, typed>>

Next ==
    \/ StartSignal
    \/ KeyF9
    \/ \E r \in 1..MaxSessions : StreamError(r)
    \/ \E r \in 1..MaxSessions, h \in Hypotheses : OnData(r, h)
    \/ \E h \in Hypotheses : GraceTimer(h)
    \/ \E r \in 1..MaxSessions : StreamEnd(r)

\* ------------------------------------------- accuracy test script (part_000)
TestInit ==
    /\ testTypedWords = <<>>
    /\ testPc = "chunks"
    /\ chunk = 0
    /\ consumed = 0
    /\ testEv = [text |-> <<>>, n |-> 0, len |-> 0, pos |-> 0, out |-> <<>>,
                 same |-> FALSE, calls |-> 0]

\* for (let j = typedWords.length; j < newWords.length; j++) {
\*     if (typedWords.length > 0 && word === typedWords[typedWords.length - 1])
\*         continue;
\*     typedWords.push(word); }
\* j is the 1-based position of the next word.
\* Mutant: the loop without its test for a consecutive duplicate.
RECURSIVE DedupLoopPlain(_, _, _)
DedupLoopPlain(newWords, j, log) ==
    IF j > Len(newWords) THEN log
    ELSE DedupLoopPlain(newWords, j + 1, Append(log, newWords[j]))

RECURSIVE DedupLoop(_, _, _)
DedupLoop(newWords, j, log) ==
    IF j > Len(newWords) THEN log
    ELSE IF Len(log) > 0 /\ newWords[j] = log[Len(log)]
         THEN DedupLoop(newWords, j + 1, log)
         ELSE DedupLoop(newWords, j + 1, Append(log, newWords[j]))

\* if (resultObj.text) { newWords = resultObj.text.trim().split(/\s+/)
\*                          .filter(w => w.length > 0); <loop> }
Reconcile(log, text) ==
    IF Len(text) > 0
    THEN DedupLoop(SplitWords(text), Len(log) + 1, log)
    ELSE log

\* A result is handled; testEv records its text, the log length (n) and the
\* consumed positions (pos) it found, its word count (len), the words it
\* added (out) and whether it repeats the text handled just before (same).
Handled(text) ==
    /\ testTypedWords' = Reconcile(testTypedWords, text)
    /\ consumed' = IF Len(SplitWords(text)) > consumed
                   THEN Len(SplitWords(text)) ELSE consumed
    /\ testEv' = [text |-> text, n |-> Len(testTypedWords),
                  len |-> Len(SplitWords(text)), pos |-> consumed,
                  out |-> SubSeq(testTypedWords', Len(testTypedWords) + 1,
                                 Len(testTypedWords')),
                  same |-> testEv.calls > 0 /\ text = testEv.text,
                  calls |-> IF testEv.calls < 2 THEN testEv.calls + 1 ELSE 2]

\* One pass of the chunk loop: acceptWaveform(chunk) says whether an
\* utterance ended, and if so recognizer.result() gives its text.
ChunkStep(endOfSpeech, text) ==
    /\ testPc = "chunks"
    /\ chunk < MaxChunks
    /\ chunk' = chunk + 1
    /\ UNCHANGED notTest
    /\ IF endOfSpeech
       THEN Handled(text)
       ELSE UNCHANGED <<testTypedWords, consumed, testEv>>
    /\ UNCHANGED testPc

\* After the last chunk: recognizer.finalResult()
FinalStep(text) ==
    /\ testPc = "chunks"
    /\ testPc' = "done"
    /\ UNCHANGED notTest
    /\ Handled(text)
    /\ UNCHANGED chunk

NextDedup ==
    \/ \E e \in BOOLEAN, t \in Texts : ChunkStep(e, t)
    \/ \E t \in Texts : FinalStep(t)

\* --------------------------------------- PostProcessor (post-processor.js)
LowerCase == <<"a", "b", "c", "d", "e", "f", "g", "h", "i", "j", "k", "l", "m",
              "n", "o", "p", "q", "r", "s", "t", "u", "v", "w", "x", "y", "z">>
UpperCase == <<"A", "B", "C", "D", "E", "F", "G", "H", "I", "J", "K", "L", "M",
              "N", "O", "P", "Q", "R", "S", "T", "U", "V", "W", "X", "Y", "Z">>
Digits == {"0", "1", "2", "3", "4", "5", "6", "7", "8", "9"}

IsLower(c) == \E i \in DOMAIN LowerCase : LowerCase[i] = c
IsUpper(c) == \E i \in DOMAIN UpperCase : UpperCase[i] = c

\* String.prototype.toUpperCase / toLowerCase on one character
toUpperCase(c) ==
    IF IsLower(c)
    THEN UpperCase[CHOOSE i \in DOMAIN LowerCase : LowerCase[i] = c] ELSE c

toLowerCase(c) ==
    IF IsUpper(c)
    THEN LowerCase[CHOOSE i \in DOMAIN UpperCase : UpperCase[i] = c] ELSE c

LowerText(text) == [i \in DOMAIN text |-> toLowerCase(text[i])]

\* \w and \b of a regular expression
IsWordChar(c) == IsLower(c) \/ IsUpper(c) \/ c \in Digits \/ c = "_"

BoundaryBefore(text, i) == i = 1 \/ ~IsWordChar(text[i - 1])
BoundaryAfter(text, i) == i = Len(text) \/ ~IsWordChar(text[i + 1])

\* text.replace(new RegExp(wrong, 'gi'), right) for a pattern without
\* metacharacters: every match, found from left to right without overlap
\* and without regard to case, is replaced.
RECURSIVE ReplaceFrom(_, _, _, _)
ReplaceFrom(text, i, wrong, right) ==
    IF i > Len(text) THEN <<>>
    ELSE IF /\ i + Len(wrong) - 1 <= Len(text)
            /\ LowerText(SubSeq(text, i, i + Len(wrong) - 1)) = LowerText(wrong)
         THEN right \o ReplaceFrom(text, i + Len(wrong), wrong, right)
         ELSE <<text[i]>> \o ReplaceFrom(text, i + 1, wrong, right)

\* config.postProcessing.corrections, in the order of Object.entries
corrections ==
    << <<<<"a", "t", " ", "t", "h", "a", "t">>, <<"t", "h", "a", "t", " ", "t", "h", "a", "t">>>>,
       <<<<"f", "o", "r", " ", "f", "r", "o", "m">>, <<"f", "r", "o", "m">>>> >>

homophones ==
    << <<<<"t", "h", "e", "i", "r", " ", "g", "o", "i", "n", "g">>,
          <<"t", "h", "e", "y", "'", "r", "e", " ", "g", "o", "i", "n", "g">>>>,
       <<<<"y", "o", "u", "r", " ", "g", "o", "i", "n", "g">>,
          <<"y", "o", "u", "'", "r", "e", " ", "g", "o", "i", "n", "g">>>>,
       <<<<"i", "t", "s", " ", "a">>, <<"i", "t", "'", "s", " ", "a">>>>,
       <<<<"i", "t", "s", " ", "b", "e", "e", "n">>, <<"i", "t", "'", "s", " ", "b", "e", "e", "n">>>> >>

\* for (const [wrong, right] of Object.entries(rules))
\*     corrected = corrected.replace(new RegExp(wrong, 'gi'), right);
RECURSIVE ApplyRules(_, _, _)
ApplyRules(text, rules, k) ==
    IF k > Len(rules) THEN text
    ELSE ApplyRules(ReplaceFrom(text, 1, rules[k][1], rules[k][2]), rules, k + 1)

_applyCorrections(text) == ApplyRules(ApplyRules(text, corrections, 1), homophones, 1)

properNouns ==
    {<<"m", "o", "n", "d", "a", "y">>,
     <<"t", "u", "e", "s", "d", "a", "y">>,
     <<"w", "e", "d", "n", "e", "s", "d", "a", "y">>,
     <<"t", "h", "u", "r", "s", "d", "a", "y">>,
     <<"f", "r", "i", "d", "a", "y">>,
     <<"s", "a", "t", "u", "r", "d", "a", "y">>,
     <<"s", "u", "n", "d", "a", "y">>,
     <<"j", "a", "n", "u", "a", "r", "y">>,
     <<"f", "e", "b", "r", "u", "a", "r", "y">>,
     <<"m", "a", "r", "c", "h">>,
     <<"a", "p", "r", "i", "l">>,
     <<"m", "a", "y">>,
     <<"j", "u", "n", "e">>,
     <<"j", "u", "l", "y">>,
     <<"a", "u", "g", "u", "s", "t">>,
     <<"s", "e", "p", "t", "e", "m", "b", "e", "r">>,
     <<"o", "c", "t", "o", "b", "e", "r">>,
     <<"n", "o", "v", "e", "m", "b", "e", "r">>,
     <<"d", "e", "c", "e", "m", "b", "e", "r">>}

\* The maximal run of word characters around position i of text.
RunStart(text, i) ==
    CHOOSE s \in 1..i :
        (\A m \in s..i : IsWordChar(text[m])) /\ BoundaryBefore(text, s)

RunEnd(text, i) ==
    CHOOSE e \in i..Len(text) :
        (\A m \in i..e : IsWordChar(text[m])) /\ BoundaryAfter(text, e)

\* /([.!?]\s+)([a-z])/g matches the letter at position i.
AfterSentenceEnd(text, i) ==
    /\ IsLower(text[i])
    /\ \E j \in 1..(i - 2) :
          /\ text[j] \in {".", "!", "?"}
          /\ \A m \in (j + 1)..(i - 1) : text[m] = SP

\* _capitalizeText: the first character, the letter after sentence-ending
\* punctuation and blanks, the word "i", and the day and month names.
_capitalizeText(text) ==
    IF text = <<>> THEN text
    ELSE LET first == [text EXCEPT ![1] = toUpperCase(text[1])]
             sentences == [i \in DOMAIN first |->
                 IF AfterSentenceEnd(first, i)
                 THEN toUpperCase(first[i]) ELSE first[i]]
             pronoun == [i \in DOMAIN sentences |->
                 IF /\ sentences[i] = "i"
                    /\ BoundaryBefore(sentences, i)
                    /\ BoundaryAfter(sentences, i)
                 THEN "I" ELSE sentences[i]]
         IN  [i \in DOMAIN pronoun |->
                 IF ~IsWordChar(pronoun[i]) THEN pronoun[i]
                 ELSE LET s == RunStart(pronoun, i)
                          e == RunEnd(pronoun, i)
                      IN  IF LowerText(SubSeq(pronoun, s, e)) \notin properNouns
                          THEN pronoun[i]
                          ELSE IF i = s THEN toUpperCase(pronoun[i])
                               ELSE toLowerCase(pronoun[i])]

\* config.postProcessing: the two flags as shipped
postProcessing == [autoCapitalize |-> TRUE, errorCorrections |-> TRUE]

\* Every setting of the two flags the constructor can merge into this.config.
PostConfigs == [autoCapitalize : BOOLEAN, errorCorrections : BOOLEAN]

processCapitalizeFirst(config, text) ==
    LET capitalized == IF config.autoCapitalize
                       THEN _capitalizeText(text) ELSE text
    IN  IF config.errorCorrections
        THEN _applyCorrections(capitalized) ELSE capitalized

\* process(text) of a PostProcessor whose this.config is config
processUnder(config, text) ==
    LET corrected == IF config.errorCorrections
                     THEN _applyCorrections(text) ELSE text
    IN  IF config.autoCapitalize
        THEN _capitalizeText(corrected) ELSE corrected

\* process(text) under the shipped configuration
process(text) == processUnder(postProcessing, text)

\* config.recognition.minConfidence (0.7), in hundredths
minConfidence == 70

\* A word result without a conf field has conf undefined; a threshold that is
\* not passed is null.
undefined == -1
null == -2

\* Mutant: a word without a confidence is dropped, too.
filterByConfidenceClosed(words, threshold) ==
    LET min == IF threshold # null THEN threshold ELSE minConfidence
    IN  SelectSeq(words, LAMBDA word : word.conf # undefined /\ word.conf >= min)

\* filterByConfidence(words, threshold = null)
filterByConfidence(words, threshold) ==
    LET min == IF threshold # null THEN threshold ELSE minConfidence
    IN  SelectSeq(words, LAMBDA word : word.conf = undefined \/ word.conf >= min)

\* text.split(' '): the pieces between single blanks, empty ones included
RECURSIVE SplitBlank(_, _, _, _)
SplitBlank(text, i, cur, acc) ==
    IF i > Len(text) THEN Append(acc, cur)
    ELSE IF text[i] = SP
         THEN SplitBlank(text, i + 1, <<>>, Append(acc, cur))
         ELSE SplitBlank(text, i + 1, Append(cur, text[i]), acc)

RECURSIVE SkipRepeatsSeen(_, _, _)
SkipRepeatsSeen(pieces, i, kept) ==
    IF i > Len(pieces) THEN kept
    ELSE IF \E k \in DOMAIN kept : kept[k] = pieces[i]
         THEN SkipRepeatsSeen(pieces, i + 1, kept)
         ELSE SkipRepeatsSeen(pieces, i + 1, Append(kept, pieces[i]))

\* for (i...) { if (i > 0 && words[i] === words[i - 1]) continue;
\*              filtered.push(words[i]); }
RECURSIVE SkipRepeats(_, _, _)
SkipRepeats(pieces, i, kept) ==
    IF i > Len(pieces) THEN kept
    ELSE IF i > 1 /\ pieces[i] = pieces[i - 1]
         THEN SkipRepeats(pieces, i + 1, kept)
         ELSE SkipRepeats(pieces, i + 1, Append(kept, pieces[i]))

\* removeDuplicates(text)
removeDuplicates(text) ==
    JoinWords(SkipRepeats(SplitBlank(text, 1, <<>>, <<>>), 1, <<>>), <<SP>>)

\* filteredWords.map(w => w.word).join(' ')
WordsJoined(results) ==
    JoinWords([i \in DOMAIN results |-> results[i].word], <<SP>>)

\* The words and confidences of a final result.
um == <<"u", "m">>
answer == <<"a", "n", "s", "w", "e", "r">>
ResultWords == {um, the}
Confidences == {undefined, 30, 70, 90}
Thresholds == {null, minConfidence, 90}

RECURSIVE ResultSeqs(_)
ResultSeqs(n) ==
    IF n = 0 THEN {<<>>}
    ELSE LET shorter == ResultSeqs(n - 1)
         IN  shorter \cup
             {Append(rs, [word |-> w, conf |-> c]) :
                 rs \in {r \in shorter : Len(r) = n - 1},
                 w \in ResultWords, c \in Confidences}

UmTheAnswer ==
    <<[word |-> um, conf |-> 30], [word |-> the, conf |-> 90],
      [word |-> answer, conf |-> 95]>>

\* No result is being processed.
PostIdle ==
    /\ wordResults = <<>>
    /\ postThreshold = null
    /\ postPc = "typed"
    /\ filteredWords = <<>>
    /\ transcribedText = <<>>

\* A final result has arrived.
PostInit ==
    /\ wordResults \in ResultSeqs(MaxResults) \cup {UmTheAnswer}
    /\ postThreshold \in Thresholds
    /\ postPc = "result"
    /\ filteredWords = <<>>
    /\ transcribedText = <<>>

\* const filteredWords = postProcessor.filterByConfidence(wordResults, ...)
FilterStep ==
    /\ postPc = "result"
    /\ filteredWords' = filterByConfidence(wordResults, postThreshold)
    /\ postPc' = "filtered"
    /\ UNCHANGED <<wordResults, postThreshold, transcribedText>>
    /\ UNCHANGED notPost

\* transcribedText = filteredWords.map(w => w.word).join(' '), then
\* removeDuplicates and process; typeTextAtCursor gets the result.
EnhanceStep ==
    /\ postPc = "filtered"
    /\ transcribedText' = process(removeDuplicates(WordsJoined(filteredWords)))
    /\ postPc' = "typed"
    /\ UNCHANGED <<wordResults, postThreshold, filteredWords>>
    /\ UNCHANGED notPost

NextPost ==
    \/ FilterStep
    \/ EnhanceStep

\* ------------------------------------------- batch-mode program (part_002)
maxDataPoints == 50

\* config.js as the program finds it: the shipped one, one with a threshold
\* above 1, and one with a correction whose pattern is no regular expression.
ShippedConfig == [minConfidence |-> minConfidence, rules |-> "ok"]
Configs ==
    {ShippedConfig,
     [minConfidence |-> 150, rules |-> "ok"],
     [minConfidence |-> minConfidence, rules |-> "malformed"]}

ValidConfig(cfg) ==
    cfg.minConfidence \in 0..100 /\ cfg.rules = "ok"

\* What recognizer.finalResult() gives: an object with text and the word
\* list result ("text"), one with text only ("textOnly"), or null.
BatchConfidences == {30, 90}

RECURSIVE BatchResults(_)
BatchResults(n) ==
    IF n = 0 THEN {<<>>}
    ELSE LET shorter == BatchResults(n - 1)
         IN  shorter \cup
             {Append(rs, [word |-> w, conf |-> c]) :
                 rs \in {r \in shorter : Len(r) = n - 1},
                 w \in ResultWords, c \in BatchConfidences}

\* A result whose words meet the shipped correction 'at that'.
at == <<"a", "t">>
that == <<"t", "h", "a", "t">>
TheAtThat ==
    <<[word |-> the, conf |-> 90], [word |-> at, conf |-> 90],
      [word |-> that, conf |-> 90]>>

FinalResults ==
    [kind : {"text", "textOnly"},
     result : BatchResults(MaxBatchWords) \cup {TheAtThat}]
        \cup [kind : {"null"}, result : {<<>>}]

\* What can go wrong inside the try block of processRecording: a file
\* operation throws before the recognizer exists ("io"), or a recognizer
\* method throws before free() ("recognize"); or the sox command of
\* preprocessFile fails and nothing else does ("sox").
Faults == {"none", "io", "recognize", "sox"}

BatchIdle(cfg) ==
    /\ batchRecording = FALSE
    /\ batchRecorder = Null
    /\ audioBuffers = 0
    /\ batchAudioData = 0
    /\ batchInterval = Null
    /\ batchStatus = "idle"
    /\ batchTimers = <<>>
    /\ batchStreams = {}
    /\ batchSession = 0
    /\ batchLive = 0
    /\ batchTypedCount = 0
    /\ batchConfig = cfg
    /\ batchEv = [op |-> "init", was |-> FALSE, path |-> "none",
                  typed |-> <<>>, sox |-> FALSE, read |-> "none",
                  unlinked |-> <<>>]

BatchInit == \E cfg \in Configs : BatchIdle(cfg)

\* The record of the handler that ran last: which one (op), isRecording as
\* it found it (was), how processRecording ended (path) and the text it
\* typed (typed), whether sox failed in it (sox), the file it gave to the
\* recognizer (read) and the files it deleted, in order (unlinked).
BatchEvent(op, path, text) ==
    [op |-> op, was |-> batchRecording, path |-> path, typed |-> text,
     sox |-> FALSE, read |-> "none", unlinked |-> <<>>]

\* startRecording() of the batch program
batchStartRecording ==
    IF batchRecording
    THEN UNCHANGED batchProg
    ELSE /\ batchSession < MaxSessions
         /\ batchSession' = batchSession + 1
         /\ batchRecording' = TRUE
         /\ audioBuffers' = 0
         /\ batchAudioData' = 0
         /\ batchTypedCount' = 0
         /\ batchStatus' = "recording"
         /\ batchInterval' = batchSession'
         /\ batchRecorder' = batchSession'
         /\ batchStreams' = batchStreams \cup {batchSession'}
         /\ UNCHANGED <<batchTimers, batchLive, batchConfig>>

\* stopRecording() of the batch program
batchStopRecording ==
    IF ~batchRecording
    THEN UNCHANGED batchProg
    ELSE /\ Len(batchTimers) < MaxTimers
         /\ batchStatus' = "processing"
         /\ batchInterval' = Null
         /\ batchTimers' = Append(batchTimers, batchSession)
         /\ UNCHANGED <<batchRecording, batchRecorder, audioBuffers,
                        batchAudioData, batchStreams, batchSession, batchLive,
                        batchTypedCount, batchConfig>>

\* keyboard.addListener: F9 starts when not recording and stops otherwise.
BatchKeyF9 ==
    /\ IF ~batchRecording THEN batchStartRecording ELSE batchStopRecording
    /\ batchEv' = BatchEvent(IF ~batchRecording THEN "start" ELSE "stop",
                             "none", <<>>)
    /\ UNCHANGED notBatch

\* audioStream.on('data'): the chunk is stored and its amplitude recorded,
\* whatever the state of the program.
BatchOnData(r) ==
    /\ r \in batchStreams
    /\ audioBuffers < MaxBuffers
    /\ audioBuffers' = audioBuffers + 1
    /\ batchAudioData' = IF batchAudioData + 1 > maxDataPoints
                         THEN batchAudioData ELSE batchAudioData + 1
    /\ batchEv' = BatchEvent("data", "none", <<>>)
    /\ UNCHANGED <<batchRecording, batchRecorder, batchInterval, batchStatus,
                   batchTimers, batchStreams, batchSession, batchLive,
                   batchTypedCount, batchConfig>>
    /\ UNCHANGED notBatch

\* audioStream.on('error'): stopRecording()
BatchStreamError(r) ==
    /\ r \in batchStreams
    /\ batchStopRecording
    /\ batchEv' = BatchEvent("error", "none", <<>>)
    /\ UNCHANGED notBatch

\* The text processRecording types for a parsed final result (without the
\* blank it appends), given that no correction rule throws.
Transcribed(h, cfg) ==
    LET text == Trim(WordsJoined(h.result))
        results == IF h.kind = "text" THEN h.result ELSE <<>>
        kept == IF Len(results) > 0
                THEN WordsJoined(filterByConfidence(results, cfg.minConfidence))
                ELSE text
    IN  process(removeDuplicates(kept))

\* AudioProcessor.preprocessFile(inputFile, outputFile): the path it returns
preprocessFile(inputFile, outputFile, soxWorks) ==
    IF soxWorks THEN outputFile ELSE inputFile

UnlinkedBoth(tempFile, processedFile) == <<tempFile, processedFile>>

\* fs.unlinkSync(tempFile);
\* if (processedFile !== tempFile) fs.unlinkSync(processedFile);
Unlinked(tempFile, processedFile) ==
    IF processedFile # tempFile THEN <<tempFile, processedFile>>
    ELSE <<tempFile>>

\* processRecording(): what it leaves behind.  leaked counts the recognizer
\* it created and did not free, text is what it typed, path tells whether
\* the try block ran to its end or the catch block ran, read is the file
\* whose samples the recognizer got and unlinked the files deleted.
processRecording(fault, h, cfg) ==
    LET processedFile ==
            preprocessFile("tempFile", "tempProcessed", fault # "sox")
        ended ==
            IF fault = "io"
            THEN [leaked |-> 0, text |-> <<>>, path |-> "catch"]
            ELSE IF fault = "recognize"
            THEN [leaked |-> 1, text |-> <<>>, path |-> "catch"]
            ELSE IF h.kind = "null"
            THEN [leaked |-> 0, text |-> <<>>, path |-> "catch"]
            ELSE IF Len(Trim(WordsJoined(h.result))) = 0
            THEN [leaked |-> 0, text |-> <<>>, path |-> "try"]
            ELSE IF cfg.rules = "malformed"
            THEN [leaked |-> 0, text |-> <<>>, path |-> "catch"]
            ELSE IF Len(Transcribed(h, cfg)) > 0
            THEN [leaked |-> 0, text |-> Transcribed(h, cfg) \o <<SP>>,
                  path |-> "try"]
            ELSE [leaked |-> 0, text |-> <<>>, path |-> "try"]
    IN  [leaked |-> ended.leaked, text |-> ended.text, path |-> ended.path,
         sox |-> fault = "sox",
         read |-> IF fault = "io" THEN "none" ELSE processedFile,
         unlinked |-> IF ended.path = "try"
                      THEN Unlinked("tempFile", processedFile) ELSE <<>>]

\* Every way processRecording can end under a configuration, over all
\* faults and final results.
Outcomes ==
    {<<cfg, processRecording(f, h, cfg)>> :
        cfg \in Configs, f \in Faults, h \in FinalResults}

\* The setTimeout callback of stopRecording, 2000 ms after the call; done
\* is the way its call of processRecording ends.
BatchTimer(done) ==
    /\ batchTimers # <<>>
    /\ <<batchConfig, done>> \in Outcomes
    /\ batchTimers' = Tail(batchTimers)
    /\ batchRecorder' = Null
    /\ batchLive' = batchLive + done.leaked
    /\ batchTypedCount' = batchTypedCount + (IF done.text # <<>> THEN 1 ELSE 0)
    /\ batchEv' = [BatchEvent("timer", done.path, done.text) EXCEPT
                       !.sox = done.sox, !.read = done.read,
                       !.unlinked = done.unlinked]
    /\ batchStatus' = "idle"
    /\ batchRecording' = FALSE
    /\ batchAudioData' = 0
    /\ UNCHANGED <<audioBuffers, batchInterval, batchStreams, batchSession,
                   batchConfig>>
    /\ UNCHANGED notBatch

\* The stream of a stopped recorder ends.
BatchStreamEnd(r) ==
    /\ r \in batchStreams
    /\ r # batchRecorder
    /\ batchStreams' = batchStreams \ {r}
    /\ batchEv' = BatchEvent("end", "none", <<>>)
    /\ UNCHANGED <<batchRecording, batchRecorder, audioBuffers,
                   batchAudioData, batchInterval, batchStatus, batchTimers,
                   batchSession, batchLive, batchTypedCount, batchConfig>>
    /\ UNCHANGED notBatch

NextBatch ==
    \/ BatchKeyF9
    \/ \E r \in 1..MaxSessions : BatchOnData(r)
    \/ \E r \in 1..MaxSessions : BatchStreamError(r)
    \/ \E o \in Outcomes : BatchTimer(o[2])
    \/ \E r \in 1..MaxSessions : BatchStreamEnd(r)

\* ------------------------------------- PostProcessor called on a text
\* The texts handed to process and removeDuplicates: words joined by single
\* blanks as processRecording joins them, and three texts on which the
\* rules meet: a rule written in lower case against a capitalised text, a
\* configured rule beside a homophone rule, and the second configured rule.
its == <<"i", "t", "s">>
for == <<"f", "o", "r">>
from == <<"f", "r", "o", "m">>
AtThatCased == <<"A", "t">> \o <<SP>> \o that
ItsAtThat == JoinWords(<<its, at, that>>, <<SP>>)
ForFromThe == JoinWords(<<for, from, the>>, <<SP>>)
CallWords == {the, at, that}

RECURSIVE CallWordSeqs(_)
CallWordSeqs(n) ==
    IF n = 0 THEN {<<>>}
    ELSE LET shorter == CallWordSeqs(n - 1)
         IN  shorter \cup {Append(ws, w) : ws \in {s \in shorter : Len(s) = n - 1},
                                           w \in CallWords}

CallTexts ==
    {JoinWords(ws, <<SP>>) : ws \in CallWordSeqs(MaxCallWords)}
        \cup {AtThatCased, ItsAtThat, ForFromThe}

NoResult == [returned |-> FALSE, text |-> <<>>]

CallIdle ==
    postCall = [fn |-> "none", config |-> postProcessing, text |-> <<>>,
                result |-> NoResult]

\* A caller is about to call one of the two methods on a text.
CallInit ==
    \E fn \in {"process", "removeDuplicates"}, config \in PostConfigs,
       text \in CallTexts :
        /\ fn = "removeDuplicates" => config = postProcessing
        /\ postCall = [fn |-> fn, config |-> config, text |-> text,
                       result |-> NoResult]

\* postProcessor.process(text)
ProcessCall ==
    /\ postCall.fn = "process"
    /\ ~postCall.result.returned
    /\ postCall' = [postCall EXCEPT
                       !.result = [returned |-> TRUE,
                                   text |-> processUnder(postCall.config,
                                                         postCall.text)]]
    /\ UNCHANGED notCall

\* postProcessor.removeDuplicates(text)
RemoveDuplicatesCall ==
    /\ postCall.fn = "removeDuplicates"
    /\ ~postCall.result.returned
    /\ postCall' = [postCall EXCEPT
                       !.result = [returned |-> TRUE,
                                   text |-> removeDuplicates(postCall.text)]]
    /\ UNCHANGED notCall

\* The caller passes what removeDuplicates returned on to process, as
\* processRecording does.
PassOn(config) ==
    /\ postCall.fn = "removeDuplicates"
    /\ postCall.result.returned
    /\ postCall' = [fn |-> "process", config |-> config,
                    text |-> postCall.result.text, result |-> NoResult]
    /\ UNCHANGED notCall

NextCall ==
    \/ ProcessCall
    \/ RemoveDuplicatesCall
    \/ \E config \in PostConfigs : PassOn(config)

\* ------------------------------------- prefix-diff program (part_003)
PrefixIdle ==
    /\ prefixRecording = FALSE
    /\ prefixRecognizer = FALSE
    /\ lastTypedText = <<>>
    /\ prefixTimers = 0
    /\ prefixSession = 0
    /\ prefixTyped = <<>>
    /\ prefixEv = [op |-> "init", revised |-> FALSE]

\* String.prototype.startsWith
startsWith(text, prefix) ==
    Len(prefix) <= Len(text) /\ SubSeq(text, 1, Len(prefix)) = prefix

\* String.prototype.substring(start), start counted from 0
substring(text, start) == SubSeq(text, start + 1, Len(text))

\* typeNewWords(newText) of part_003: typed is what it hands to
\* typeTextAtCursor, last is lastTypedText afterwards.
prefixTypeNewWords(newText, last) ==
    IF startsWith(newText, last)
    THEN LET newPortion == substring(newText, Len(last))
         IN  IF Len(newPortion) > 0
             THEN [typed |-> <<newPortion>>, last |-> newText]
             ELSE [typed |-> <<>>, last |-> last]
    ELSE [typed |-> <<newText>>, last |-> newText]

\* F9 while isRecording is false: startRecording()
PrefixStartRecording ==
    /\ ~prefixRecording
    /\ prefixSession < MaxSessions
    /\ prefixRecording' = TRUE
    /\ lastTypedText' = <<>>
    /\ prefixRecognizer' = TRUE
    /\ prefixSession' = prefixSession + 1
    /\ prefixTyped' = <<>>
    /\ prefixEv' = [op |-> "start", revised |-> FALSE]
    /\ UNCHANGED prefixTimers
    /\ UNCHANGED notPrefix

\* F9 while isRecording is true: stopRecording() sets the grace timer
PrefixStopRecording ==
    /\ prefixRecording
    /\ prefixTimers < MaxTimers
    /\ prefixTimers' = prefixTimers + 1
    /\ prefixEv' = [op |-> "stop", revised |-> FALSE]
    /\ UNCHANGED <<prefixRecording, prefixRecognizer, lastTypedText,
                   prefixSession, prefixTyped>>
    /\ UNCHANGED notPrefix

\* audioStream.on('data'): the partial result h of the recognizer
PrefixOnData(h) ==
    /\ prefixRecognizer
    /\ Len(prefixTyped) < MaxPartials
    /\ LET newText == Trim(h.text)
           done == IF h.kind = "text" /\ Len(newText) > 0
                   THEN prefixTypeNewWords(newText, lastTypedText)
                   ELSE [typed |-> <<>>, last |-> lastTypedText]
       IN  /\ lastTypedText' = done.last
           /\ prefixTyped' = prefixTyped \o done.typed
           /\ prefixEv' = [op |-> "data",
                           revised |-> /\ h.kind = "text"
                                       /\ Len(newText) > 0
                                       /\ ~startsWith(newText, lastTypedText)]
    /\ UNCHANGED <<prefixRecording, prefixRecognizer, prefixTimers,
                   prefixSession>>
    /\ UNCHANGED notPrefix

\* The setTimeout callback of stopRecording, 2000 ms after the call; h is the
\* final result of the recognizer.
PrefixTimer(h) ==
    /\ prefixTimers > 0
    /\ prefixTimers' = prefixTimers - 1
    /\ prefixRecognizer' = FALSE
    /\ LET finalText == Trim(h.text)
           remainingText == substring(finalText, Len(lastTypedText))
           remaining == IF /\ Len(finalText) > Len(lastTypedText)
                           /\ Len(Trim(remainingText)) > 0
                        THEN <<remainingText>> ELSE <<>>
       IN  prefixTyped' =
               IF prefixRecognizer /\ h.kind = "text" /\ Len(finalText) > 0
               THEN prefixTyped \o remaining \o <<(<<SP>>)>>
               ELSE prefixTyped
    /\ prefixRecording' = FALSE
    /\ prefixEv' = [op |-> "timer", revised |-> FALSE]
    /\ UNCHANGED <<lastTypedText, prefixSession>>
    /\ UNCHANGED notPrefix

NextPrefix ==
    \/ PrefixStartRecording
    \/ PrefixStopRecording
    \/ \E h \in Hypotheses : PrefixOnData(h)
    \/ \E h \in Hypotheses : PrefixTimer(h)

\* --------------------------------------- calculateAudioLevel (rec-wrapper.sh)
\* A Buffer is its bytes; the argument can also be missing (undefined, null).
\* The bytes give the samples 0, 2048, -32768, -1 and their mixtures.
Bytes == {0, 8, 128, 255}

RECURSIVE ByteSeqs(_)
ByteSeqs(n) ==
    IF n = 0 THEN {<<>>}
    ELSE LET shorter == ByteSeqs(n - 1)
         IN  shorter \cup
             {Append(bs, b) : bs \in {x \in shorter : Len(x) = n - 1},
                              b \in Bytes}

Buffers ==
    [present : {TRUE}, bytes : ByteSeqs(MaxBufferLen)]
        \cup {[present |-> FALSE, bytes |-> <<>>]}

\* buffer.readInt16LE(offset) for an offset the buffer has two bytes at
\* (the offset is counted from 0)
readInt16LE(bytes, offset) ==
    LET u == bytes[offset + 1] + 256 * bytes[offset + 2]
    IN  IF u >= 32768 THEN u - 65536 ELSE u

\* The loop of calculateAudioLevel from offset i on: sum of the squared
\* samples, kept as hi * 2^19 + lo.  readInt16LE throws a RangeError when
\* fewer than two bytes are left at the offset.
RECURSIVE SumSquares(_, _, _)
SumSquares(bytes, i, acc) ==
    IF ~(i < Len(bytes)) THEN acc
    ELSE IF i + 2 > Len(bytes) THEN [acc EXCEPT !.threw = TRUE]
    ELSE LET v == readInt16LE(bytes, i)
         IN  SumSquares(bytes, i + 2,
                        [acc EXCEPT !.hi = @ + ((v * v) \div 524288),
                                    !.lo = @ + ((v * v) % 524288)])

\* Math.floor(Math.sqrt(x)) for a natural number x up to 800 * 800
FloorSqrt(x) == CHOOSE k \in 0..800 : k * k <= x /\ x < (k + 1) * (k + 1)

Min(a, b) == IF a < b THEN a ELSE b

\* calculateAudioLevel(buffer): with S the sum of the squared samples and n
\* the length, (rms * 100 * 8)^2 = 625 * S / (2^19 * n); the result is the
\* value returned or the RangeError thrown.
calculateAudioLevel(buffer) ==
    IF ~buffer.present \/ Len(buffer.bytes) = 0
    THEN [kind |-> "value", level |-> 0]
    ELSE LET sum == SumSquares(buffer.bytes, 0,
                               [hi |-> 0, lo |-> 0, threw |-> FALSE])
             n == Len(buffer.bytes)
             square == ((625 * sum.hi) + ((625 * sum.lo) \div 524288)) \div n
         IN  IF sum.threw
             THEN [kind |-> "RangeError", level |-> 0]
             ELSE [kind |-> "value", level |-> Min(100, FloorSqrt(square))]

NotCalled == [kind |-> "none", level |-> 0]

LevelIdle ==
    levelCall = [buffer |-> [present |-> FALSE, bytes |-> <<>>],
                 result |-> NotCalled]

\* The data handler has a chunk to pass to calculateAudioLevel.
LevelInit ==
    \E b \in Buffers : levelCall = [buffer |-> b, result |-> NotCalled]

\* currentAudioLevel = calculateAudioLevel(data)
LevelCall ==
    /\ levelCall.result = NotCalled
    /\ levelCall' = [levelCall EXCEPT
                        !.result = calculateAudioLevel(levelCall.buffer)]
    /\ UNCHANGED notLevel

\* The next chunk arrives.
LevelNextChunk(b) ==
    /\ levelCall.result # NotCalled
    /\ levelCall' = [buffer |-> b, result |-> NotCalled]
    /\ UNCHANGED notLevel

NextLevel ==
    \/ LevelCall
    \/ \E b \in Buffers : LevelNextChunk(b)

\* ------------------------------------- WhisperEngine.transcribeStream
\* Every call of transcribeStream has its own chunks, processing and
\* interval; streamCalls holds them for each call made so far, and c names
\* a call by its number.  offered counts the chunks the caller's
\* audioChunkCallback would hand over when called.
Calls == DOMAIN streamCalls

StreamIdle ==
    /\ streamCalls = <<>>
    /\ streamEv = [op |-> "init", call |-> 0, supplied |-> 0, failed |-> FALSE]

\* The record of the function that ran last: which one (op), of which call,
\* the chunks supplied and not yet transcribed that it found (supplied) and
\* whether a batch it ran threw (failed).
StreamEvent(op, c, failed) ==
    [op |-> op, call |-> c,
     supplied |-> streamCalls[c].offered + streamCalls[c].chunks,
     failed |-> failed]

\* transcribeStream(audioChunkCallback, transcriptionCallback): chunks = [],
\* processing = false, setInterval(processChunks, 2000); neither callback is
\* called here.
transcribeStream ==
    /\ Len(streamCalls) < MaxStreams
    /\ streamCalls' = Append(streamCalls,
                             [interval |-> "active", chunks |-> 0,
                              processing |-> FALSE, offered |-> 0,
                              delivered |-> 0])
    /\ streamEv' = [op |-> "call", call |-> Len(streamCalls) + 1,
                    supplied |-> 0, failed |-> FALSE]
    /\ UNCHANGED notStream

\* The caller has one more audio chunk for its audioChunkCallback to give.
AudioReady(c) ==
    /\ c \in Calls
    /\ streamCalls[c].offered < MaxOffered
    /\ streamCalls' = [streamCalls EXCEPT ![c].offered = @ + 1]
    /\ streamEv' = StreamEvent("audio", c, FALSE)
    /\ UNCHANGED notStream

\* processChunks(), run by the interval every 2000 ms: it returns at once
\* when chunks is empty or a batch is being processed; otherwise it sets
\* processing, writes the chunks to a file and awaits transcribeFile, whose
\* end is taken with the tick: on success (ok) the result goes to
\* transcriptionCallback and chunks is emptied, on failure the error is
\* logged; processing is reset in both cases.  Nothing in the function or
\* around it calls audioChunkCallback or adds to chunks.
processChunks(c, ok) ==
    /\ c \in Calls
    /\ streamCalls[c].interval = "active"
    /\ IF streamCalls[c].chunks = 0 \/ streamCalls[c].processing
       THEN /\ streamEv' = StreamEvent("tick", c, FALSE)
            /\ UNCHANGED streamCalls
       ELSE /\ streamEv' = StreamEvent("tick", c, ~ok)
            /\ streamCalls' =
                  [streamCalls EXCEPT
                      ![c].delivered = IF ok THEN @ + 1 ELSE @,
                      ![c].chunks = IF ok THEN 0 ELSE @,
                      ![c].processing = FALSE]
    /\ UNCHANGED notStream

\* The cleanup function transcribeStream returns: clearInterval(interval),
\* chunks.length = 0.
Cleanup(c) ==
    /\ c \in Calls
    /\ streamCalls' = [streamCalls EXCEPT ![c].interval = "cleared",
                                          ![c].chunks = 0]
    /\ streamEv' = StreamEvent("cleanup", c, FALSE)
    /\ UNCHANGED notStream

NextStream ==
    \/ transcribeStream
    \/ \E c \in 1..MaxStreams : AudioReady(c)
    \/ \E c \in 1..MaxStreams, ok \in BOOLEAN : processChunks(c, ok)
    \/ \E c \in 1..MaxStreams : Cleanup(c)

\* ------------------------------ the application on the documented utterance
\* "four score and seven": the partial results are its prefixes, the final
\* result is the whole of it, and its word list carries the confidences.
four == <<"f", "o", "u", "r">>
score == <<"s", "c", "o", "r", "e">>
and == <<"a", "n", "d">>
seven == <<"s", "e", "v", "e", "n">>
FourScoreAndSeven == <<four, score, and, seven>>

ScenarioResult ==
    <<[word |-> four, conf |-> 90], [word |-> score, conf |-> 90],
      [word |-> and, conf |-> 90], [word |-> seven, conf |-> 40]>>

\* A result of a recognizer model whose vocabulary is not all lowercase.
Four == <<"F", "o", "u", "r">>

ScenarioHypotheses ==
    [kind : {"text"},
     text : {JoinWords(SubSeq(FourScoreAndSeven, 1, k), <<SP>>) :
                k \in 1..Len(FourScoreAndSeven)} \cup {Four}]

NextScenario ==
    \/ StartSignal
    \/ KeyF9
    \/ \E r \in 1..MaxSessions : StreamError(r)
    \/ \E r \in 1..MaxSessions, h \in ScenarioHypotheses : OnData(r, h)
    \/ \E h \in ScenarioHypotheses : GraceTimer(h)
    \/ \E r \in 1..MaxSessions : StreamEnd(r)

\* ----------------------------------------------------------- specifications
Init ==
    /\ AppInit
    /\ TestInit
    /\ PostIdle
    /\ BatchIdle(ShippedConfig)
    /\ LevelIdle
    /\ StreamIdle
    /\ CallIdle
    /\ PrefixIdle

Spec == Init /\ [][Next]_vars

SpecDedup == Init /\ [][NextDedup]_vars

InitPost ==
    /\ AppInit
    /\ TestInit
    /\ PostInit
    /\ BatchIdle(ShippedConfig)
    /\ LevelIdle
    /\ StreamIdle
    /\ CallIdle
    /\ PrefixIdle

SpecPost == InitPost /\ [][NextPost]_vars

InitBatch ==
    /\ AppInit
    /\ TestInit
    /\ PostIdle
    /\ BatchInit
    /\ LevelIdle
    /\ StreamIdle
    /\ CallIdle
    /\ PrefixIdle

SpecBatch == InitBatch /\ [][NextBatch]_vars

SpecScenario == Init /\ [][NextScenario]_vars

InitLevel ==
    /\ AppInit
    /\ TestInit
    /\ PostIdle
    /\ BatchIdle(ShippedConfig)
    /\ LevelInit
    /\ StreamIdle
    /\ CallIdle
    /\ PrefixIdle

SpecLevel == InitLevel /\ [][NextLevel]_vars

SpecStream == Init /\ [][NextStream]_vars

InitCall ==
    /\ AppInit
    /\ TestInit
    /\ PostIdle
    /\ BatchIdle(ShippedConfig)
    /\ LevelIdle
    /\ StreamIdle
    /\ CallInit
    /\ PrefixIdle

SpecPostCall == InitCall /\ [][NextCall]_vars

SpecPrefix == Init /\ [][NextPrefix]_vars

\* The event loop runs the callback of a timer that is due: a pending grace
\* timer fires.
SpecFair == Spec /\ WF_vars(\E h \in Hypotheses : GraceTimer(h))

\* ------------------------------------------------------------------ claims
IsPrefix(s, t) == Len(s) <= Len(t) /\ SubSeq(t, 1, Len(s)) = s

\* The texts typeTextAtCursor is given for a sequence of words: word + ' '
SinkTexts(words) == [i \in 1..Len(words) |-> words[i] \o <<SP>>]

\* A step in which startRecording takes a session from Idle to Recording.
SessionStart == ~isRecording /\ isRecording' /\ ev'.op = "start"

\* C1: within a session the committed word log is append-only; it is reset
\* to empty only by the Idle -> Recording transition of startRecording.
C1_AppendOnly ==
    [][IsPrefix(typedWords, typedWords')
        \/ (SessionStart /\ typedWords' = <<>>)]_vars

\* A word is appended to a non-empty log during the grace window.
C1_Witness ==
    /\ ev.op = "data"
    /\ ev.n >= 1
    /\ Len(typedWords) > ev.n
    /\ timers # <<>>

\* C2: the log never gets shorter within a session, and the texts handed to
\* typeTextAtCursor since the start are, in call order, exactly the words of
\* the log, each once (each followed by a blank).
C2_EmitOnce ==
    /\ typed = SinkTexts(typedWords)
    /\ (ev.op = "start" /\ ~ev.was) \/ ev.n <= Len(typedWords)

\* The final result adds words to a log that partial results built.
C2_Witness ==
    /\ ev.op = "timer"
    /\ ev.n >= 1
    /\ Len(typed) > ev.n

\* C3: a stop signal outside Recording changes nothing; a second stop signal
\* during the grace window schedules no second timer, so no session has two
\* pending grace timers.
C3_SingleGraceTimer ==
    \A i, j \in DOMAIN timers : timers[i] = timers[j] => i = j

\* C4: a start signal while the session is not Idle changes no program
\* variable.
C4_StartIgnored ==
    [][(isRecording /\ ev'.op = "start") => UNCHANGED progVars]_vars

\* A start signal arrived during the grace window of a session with words.
C4_Witness ==
    /\ ev.op = "start"
    /\ ev.was
    /\ typedWords # <<>>
    /\ timers # <<>>

\* C5: a result handled twice in a row adds words only the first time.
C5_Idempotent == testEv.same => testEv.out = <<>>

\* C6: positions below the word count of a handled result are consumed; a
\* later result adds words only from positions beyond them.
C6_ConsumedNotRetried ==
    Len(testEv.out) <= (IF testEv.len > testEv.pos
                        THEN testEv.len - testEv.pos ELSE 0)

\* C7: a candidate word equal to the last committed word is neither typed
\* nor appended; with the log [the, cat] the update "the cat cat sat" types
\* exactly "sat".
C7_DuplicateSuppressed ==
    [][ev'.op = "data" =>
        /\ \A i \in (Len(typedWords) + 1)..Len(typedWords') :
              i > 1 => typedWords'[i] # typedWords'[i - 1]
        /\ (typedWords = <<the, cat>> /\ recognizer # Null
                /\ ev'.tail = <<cat, sat>> /\ ~ev'.revised)
              => /\ typedWords' = <<the, cat, sat>>
                 /\ typed' = typed \o SinkTexts(<<sat>>)]_vars

\* C8: an update with no more words than the log, be it identical, shorter
\* or diverged, types nothing and leaves the log unchanged.
C8_NoRegression ==
    [][(ev'.op = "data" /\ ev'.len <= Len(typedWords))
        => (typedWords' = typedWords /\ typed' = typed)]_vars

\* An update as long as the log and different from it was handled.
C8_Witness ==
    /\ ev.op = "data"
    /\ ev.heard
    /\ ev.len = 2
    /\ ev.n = 2
    /\ ev.revised
    /\ Len(typedWords) = 2

C10_OneRecognizer == Cardinality(liveRecognizers) <= 1

\* A later session holds its recognizer while a grace timer is pending.
C10_Witness ==
    /\ session >= 2
    /\ recognizer # Null
    /\ liveRecognizers = {recognizer}
    /\ timers # <<>>

\* The grace window of the latest session: its stop signal was accepted and
\* the timer that stop scheduled has not fired yet.
Draining == \E i \in DOMAIN timers : timers[i] = session

C12_StopReachesIdle ==
    (ev.op = "stop" /\ ev.was) ~> (~isRecording /\ status = "idle")

\* A grace timer of a session with typed words got a final result without
\* words (empty or unparsable) and left the program idle.
C12_Witness ==
    /\ ev.op = "timer"
    /\ ev.was
    /\ ev.heard
    /\ ev.n >= 1
    /\ ev.len = 0
    /\ ~isRecording
    /\ status = "idle"

\* A consistent Idle state: nothing of a session is held.
IdleCleared ==
    /\ ~isRecording
    /\ status = "idle"
    /\ recognizer = Null
    /\ recorder = Null
    /\ liveRecognizers = {}
    /\ liveRecorders = {}
    /\ audioData = "empty"

\* C14: an error of the audio stream, in whatever state it arrives, is
\* followed by a consistent Idle state (recognizer released, recorder stopped,
\* waveform buffer empty), and the error handler starts no recorder and opens
\* no stream.
C14_ErrorReachesIdle ==
    /\ (ev.op = "stop" /\ ev.src = "stream") ~> IdleCleared
    /\ [][(ev'.op = "stop" /\ ev'.src = "stream")
            => UNCHANGED <<recorder, liveRecorders, streams, recognizer,
                           liveRecognizers>>]_vars

\* The stream failed in a session that had typed words, and the session is
\* on its way to Idle.
C14_Witness ==
    /\ ev.op = "stop"
    /\ ev.src = "stream"
    /\ ev.was
    /\ typedWords # <<>>
    /\ status = "processing"
    /\ recognizer # Null

\* C16: a recorder is started, a recognizer created and isRecording set only
\* by a start signal that arrives while not recording; no timer, stream
\* event or error handler does it.
C16_OnlyStartBegins ==
    [][(\/ liveRecorders' \ liveRecorders # {}
        \/ liveRecognizers' \ liveRecognizers # {}
        \/ recorder' \notin {recorder, Null}
        \/ recognizer' \notin {recognizer, Null}
        \/ (~isRecording /\ isRecording'))
        => (ev'.op = "start" /\ ~isRecording)]_vars

\* A stream error arrived after a session had ended, and nothing is running.
C16_Witness ==
    /\ ev.op = "stop"
    /\ ev.src = "stream"
    /\ ~ev.was
    /\ session >= 1
    /\ ~isRecording
    /\ recorder = Null
    /\ recognizer = Null

\* C17: a malformed hypothesis commits and types nothing; as a partial
\* result it leaves the session as it is, recognizer and streams included,
\* and as a final result the callback still ends in Idle.
C17_MalformedIsEmpty ==
    [][ev'.bad =>
        /\ typedWords' = typedWords
        /\ typed' = typed
        /\ ev'.op = "data" =>
              UNCHANGED <<isRecording, recognizer, recorder, status, timers,
                          streams, liveRecognizers, liveRecorders>>
        /\ ev'.op = "timer" => (~isRecording' /\ status' = "idle")]_vars

\* A malformed partial result arrived in a session that had typed words and
\* goes on recording.
C17_Witness ==
    /\ ev.bad
    /\ ev.op = "data"
    /\ ev.n >= 1
    /\ isRecording
    /\ recognizer # Null
    /\ status = "recording"

\* C19: the final result types and records exactly its words beyond the
\* length of the log, unchanged; the words already in the log stay as they
\* are, and a final result with no more words than the log types nothing.
C19_FinalTailOnly ==
    [][(ev'.op = "timer" /\ ev'.heard) =>
        /\ typedWords' = typedWords \o ev'.tail
        /\ typed' = typed \o SinkTexts(ev'.tail)
        /\ ev'.len <= Len(typedWords) =>
              (typedWords' = typedWords /\ typed' = typed)]_vars

\* A final result that disagrees with the log at a committed position added
\* its tail.
C19_Witness ==
    /\ ev.op = "timer"
    /\ ev.heard
    /\ ev.n >= 1
    /\ ev.revised
    /\ ev.len > ev.n
    /\ Len(typedWords) = ev.len

\* The threshold filterByConfidence works with.
EffectiveThreshold ==
    IF postThreshold = null THEN minConfidence ELSE postThreshold

\* The positions of wordResults whose confidence is absent or not below the
\* threshold.
KeptPositions ==
    {i \in DOMAIN wordResults :
        ~(wordResults[i].conf # undefined
            /\ wordResults[i].conf < EffectiveThreshold)}

TheAnswer == <<"T", "h", "e", " ", "a", "n", "s", "w", "e", "r">>

\* C20: the filter returns, in their order, exactly the words whose
\* confidence is absent or at least the threshold; [um 0.3, the 0.9,
\* answer 0.95] with threshold 0.7 ends as "The answer".
C20_ConfidenceFilter ==
    /\ postPc \in {"filtered", "typed"} /\ wordResults # <<>> =>
          /\ Len(filteredWords) = Cardinality(KeptPositions)
          /\ \A j \in DOMAIN filteredWords :
                \E i \in KeptPositions :
                    /\ Cardinality({k \in KeptPositions : k < i}) = j - 1
                    /\ filteredWords[j] = wordResults[i]
    /\ (postPc = "typed" /\ wordResults = UmTheAnswer
            /\ EffectiveThreshold = 70)
          => transcribedText = TheAnswer

\* The example has been filtered and processed.
C20_Witness ==
    /\ postPc = "typed"
    /\ wordResults = UmTheAnswer
    /\ postThreshold = 70
    /\ Len(filteredWords) = 2
    /\ transcribedText = TheAnswer

\* C13: when the timer callback has brought the batch program back to Idle,
\* on the try path or the catch path of processRecording, audioBuffers and
\* audioData are empty.
C13_BuffersEmptyAtIdle ==
    batchEv.op = "timer" => (audioBuffers = 0 /\ batchAudioData = 0)

\* C15: once the batch program is back in Idle, every recognizer that
\* processRecording created has been freed, whichever way it ended.
C15_RecognizerReleased ==
    ~batchRecording => batchLive = 0

\* C18: with a threshold outside 0..1 or a malformed correction rule
\* startRecording fails: no session starts and no chunk is stored.
C18_ConfigCheckedAtStart ==
    ~ValidConfig(batchConfig) =>
        (~batchRecording /\ batchSession = 0 /\ audioBuffers = 0)

\* C22: in batch mode the text of a recording is typed at most once per
\* session, whatever F9 presses and stream errors arrive in the grace window.
C22_TypedAtMostOnce == batchTypedCount <= 1

\* C24: the text batch mode types holds no two consecutive identical words.
C24_NoRepeatTyped ==
    LET ws == SplitWords(batchEv.typed)
    IN  \A i \in 1..(Len(ws) - 1) : ws[i] # ws[i + 1]

\* C23: once the grace timer has fired and the final result is handled, no
\* handler commits or emits a word until the next start: a handler that
\* found isRecording false, and is no start, leaves the log and the sink at
\* the length it found.
C23_NoRunaway ==
    (~ev.was /\ ev.op \notin {"init", "start"})
        => (Len(typedWords) = ev.n /\ Len(typed) = ev.n)

\* a chunk arrived after the session with committed words was finalized
C23_Witness ==
    /\ ev.op = "data"
    /\ ~ev.was
    /\ session >= 1
    /\ typedWords # <<>>

\* C28: the grace timer finalizes only the session that scheduled it: a
\* callback that ends a running session belongs to that session.
C28_TimerOwnSession ==
    [][(isRecording /\ ~isRecording') => Head(timers) = session]_vars

\* C29: an event of an earlier session's stream has no effect on a later
\* session: no data event of such a stream can change the log, the sink or
\* the level data, and no error event of it can schedule a stop.
C29_StaleStreamInert ==
    \A r \in streams \ {recorder} :
        r < session =>
            /\ \A h \in Hypotheses :
                   ~ENABLED (/\ OnData(r, h)
                             /\ <<typedWords, typed, audioData>>'
                                    # <<typedWords, typed, audioData>>)
            /\ ~ENABLED (StreamError(r) /\ <<status, timers>>' # <<status, timers>>)

\* The words of the documented final result that pass the shipped threshold.
ScenarioKept ==
    LET kept == filterByConfidence(ScenarioResult, minConfidence)
    IN  [i \in DOMAIN kept |-> kept[i].word]

\* C21: after the partials "four", "four score", "four score and" the final
\* result "four score and seven", whose last word has confidence 0.4 under
\* the threshold 0.7, emits nothing: the sink has "four ", "score ", "and "
\* and the log has four, score, and.
C21_FourScoreAnd ==
    (/\ ev.op = "timer"
     /\ ev.heard
     /\ ev.n = 3
     /\ ev.tail = <<seven>>
     /\ SubSeq(typedWords, 1, 3) = <<four, score, and>>)
        => (typedWords = ScenarioKept /\ typed = SinkTexts(ScenarioKept))

\* C30: after finalization the log holds, entry by entry, the lowercase form
\* of the word sent to the sink.
C30_LogLowercase ==
    (ev.op = "timer" /\ ev.heard)
        => /\ Len(typedWords) = Len(typed)
           /\ \A i \in (ev.n + 1)..Len(typed) :
                  typedWords[i] = LowerText(SubSeq(typed[i], 1, Len(typed[i]) - 1))

\* a and b, where both are among the calls, were made in this order
InOrder(a, b, calls) ==
    \A i, j \in DOMAIN calls : (calls[i] = a /\ calls[j] = b) => i < j

\* C27 as stated: when the grace window elapses capture is stopped, then the
\* final hypothesis is requested, then the output is emitted, and only then
\* the recognition context is released.
C27_ReleaseAfterEmit ==
    ev.op = "timer" =>
        /\ InOrder("recorder.stop", "finalResult", ev.steps)
        /\ InOrder("finalResult", "typeTextAtCursor", ev.steps)
        /\ InOrder("typeTextAtCursor", "free", ev.steps)

\* C27 amended: capture is stopped, then the final hypothesis is requested,
\* then the recognition context is released, and only then the output is
\* emitted.
C27_EmitAfterRelease ==
    ev.op = "timer" =>
        /\ InOrder("recorder.stop", "finalResult", ev.steps)
        /\ InOrder("finalResult", "free", ev.steps)
        /\ InOrder("free", "typeTextAtCursor", ev.steps)

\* a grace timer made all four calls
C27_Witness ==
    /\ ev.op = "timer"
    /\ Len(ev.steps) = 4
    /\ typed # <<>>

\* C26: the audio level of a chunk is an integer in 0..100 for every
\* buffer, of even or odd length, and 0 for a missing or empty buffer.
C26_LevelInRange ==
    levelCall.result # NotCalled =>
        /\ levelCall.result.kind = "value"
        /\ levelCall.result.level \in 0..100
        /\ (~levelCall.buffer.present \/ levelCall.buffer.bytes = <<>>)
              => levelCall.result.level = 0

\* C25: a 2-second tick that finds audio chunks supplied has them
\* transcribed and the result passed to transcriptionCallback, unless the
\* transcription itself failed.
C25_StreamDelivers ==
    (streamEv.op = "tick" /\ streamEv.supplied > 0)
        => (streamCalls[streamEv.call].delivered > 0 \/ streamEv.failed)

\* C35: whenever isRecording is false the recognizer and the recorder are
\* both null.
C35_IdleHoldsNothing ==
    ~isRecording => (recognizer = Null /\ recorder = Null)

\* a session was finalized and the program is idle again
C35_Witness ==
    /\ ev.op = "timer"
    /\ ev.heard
    /\ ~isRecording
    /\ session >= 1

\* C36: at most one level-sampling interval is active at any time, and none
\* while isRecording is false.
C36_OneIntervalNoneIdle ==
    /\ Cardinality(liveIntervals) <= 1
    /\ ~isRecording => liveIntervals = {}

\* C37: between handlers the status shows idle exactly when isRecording is
\* false, and the status only goes from idle to recording, from recording
\* to processing and from processing to idle.
C37_StatusOrder ==
    /\ [](status = "idle" <=> ~isRecording)
    /\ [][status' # status =>
              <<status, status'>> \in {<<"idle", "recording">>,
                                       <<"recording", "processing">>,
                                       <<"processing", "idle">>}]_vars

\* C39: with the loop that compares each candidate with the last element of
\* typedWords, the log never holds two adjacent identical words.
C39_NoAdjacentRepeat ==
    \A i \in 1..(Len(testTypedWords) - 1) :
        testTypedWords[i] # testTypedWords[i + 1]

\* the result "the the the cat" was handled and left the, cat
C39_Witness ==
    /\ testEv.text = TheTheTheCat
    /\ testEv.n = 0
    /\ testTypedWords = <<the, cat>>

\* C31: process applies the correction rules, the configured ones in their
\* order and then the homophone rules, whatever the case of the text, and
\* capitalizes the corrected text: "At that" becomes "That that" and
\* "its at that" becomes "Its that that"; with errorCorrections and
\* autoCapitalize both off it returns its argument.
C31_CorrectThenCapitalize ==
    (postCall.fn = "process" /\ postCall.result.returned) =>
        LET config == postCall.config
            text == postCall.text
            out == postCall.result.text
            corrected == ApplyRules(ApplyRules(text, corrections, 1),
                                    homophones, 1)
        IN  /\ (config.errorCorrections /\ config.autoCapitalize) =>
                    out = _capitalizeText(corrected)
            /\ (~config.errorCorrections /\ ~config.autoCapitalize) =>
                    out = text
            /\ (config = postProcessing /\ text = AtThatCased) =>
                    out = <<"T", "h", "a", "t">> \o <<SP>> \o that
            /\ (config = postProcessing /\ text = ItsAtThat) =>
                    out = <<"I", "t", "s">> \o <<SP>> \o that \o <<SP>> \o that

\* process returned "That that" for "At that" under the shipped flags
C31_Witness ==
    /\ postCall.fn = "process"
    /\ postCall.config = postProcessing
    /\ postCall.text = AtThatCased
    /\ postCall.result.returned
    /\ postCall.result.text = <<"T", "h", "a", "t">> \o <<SP>> \o that

\* The first word of every run of equal words, in order.
RunHeads(words) ==
    LET heads == {i \in DOMAIN words : i = 1 \/ words[i] # words[i - 1]}
    IN  [k \in 1..Cardinality(heads) |->
            words[CHOOSE i \in heads : Cardinality({j \in heads : j <= i}) = k]]

\* C32: the words of what removeDuplicates returns hold no two adjacent
\* identical words, they are the first word of every run of the argument
\* in the argument's order, and removeDuplicates maps what it returned to
\* itself.
C32_RunsCollapsed ==
    (postCall.fn = "removeDuplicates" /\ postCall.result.returned) =>
        LET given == SplitWords(postCall.text)
            out == SplitWords(postCall.result.text)
        IN  /\ \A i \in 1..(Len(out) - 1) : out[i] # out[i + 1]
            /\ out = RunHeads(given)
            /\ removeDuplicates(postCall.result.text) = postCall.result.text

\* removeDuplicates returned "the at" for "the the at"
C32_Witness ==
    /\ postCall.fn = "removeDuplicates"
    /\ postCall.result.returned
    /\ postCall.text = JoinWords(<<the, the, at>>, <<SP>>)
    /\ postCall.result.text = JoinWords(<<the, at>>, <<SP>>)

\* C34: in the prefix-diff program, while the recognizer of a session is
\* held, the texts typed since the session began, put end to end, are the
\* latest partial text, lastTypedText.
C34_TypedIsLatestPartial ==
    prefixRecognizer => JoinWords(prefixTyped, <<>>) = lastTypedText

\* C33: when the sox command fails, processRecording gives the recognizer
\* the recording as it was written (preprocessFile returned its input
\* file), and when it reaches its cleanup it deletes that file once and
\* deletes nothing else.
C33_SoxFailureOneDelete ==
    (batchEv.op = "timer" /\ batchEv.sox) =>
        /\ batchEv.read = "tempFile"
        /\ batchEv.path = "try" => batchEv.unlinked = <<"tempFile">>

\* sox failed, the recording was recognized and typed, one file was deleted
C33_Witness ==
    /\ batchEv.op = "timer"
    /\ batchEv.sox
    /\ batchEv.path = "try"
    /\ batchEv.typed # <<>>
    /\ batchEv.unlinked = <<"tempFile">>

====
